---- MODULE Spec2Model ----
\* Model of the vSphere CIS Session (src/src/cis.rs): the session state,
\* the three async operations login / login_status / logout with their
\* suspension points, and the server's possible answers.
EXTENDS Integers, FiniteSets, Sequences, TLC

\* ---------------------------------------------------------------------
\* Bounds and constants
\* ---------------------------------------------------------------------
NumTokens == 2
NumUsers == 2
HTTP_OK == 200
HTTP_UNAUTHORIZED == 401

\* session tokens and usernames are abstracted as positive integers;
\* 0 stands for Option::None, and for the empty header value ""
None == 0
Tokens == 1..NumTokens
Users == 1..NumUsers

\* status codes a server can answer with (OK, UNAUTHORIZED and two others)
\* final statuses a server can answer with (OK, UNAUTHORIZED and two others;
\* a 3xx without Location is not followed and behaves like these)
StatusCodes == {HTTP_OK, HTTP_UNAUTHORIZED, 404, 500}

\* reqwest::Client::builder() keeps the default redirect policy,
\* redirect::Policy::limited(10): a 3xx answer with a Location header is
\* followed with a new request inside send(), up to 10 times
RedirectLimit == 10
RedirectStatus == 302

\* hostnames a session can be constructed for
Hostnames == {"vc.example", "10.0.0.1"}

VARIABLES
  session_id,      \* Session.session_id : Option<String>
  logged_in_user,  \* Session.logged_in_user : Option<&str>
  insecure,        \* TLS trust mode given to Session::new
  pc,              \* position of the (single) caller's operation
  op_user,         \* login's username argument while login is running
  sent_header,     \* value of vmware-api-session-id on the last authenticated request
  resp_status,     \* status of the response of the current/last call (0: none)
  resp_value,      \* decoded body value of the current/last call (0: none)
  sends,           \* number of HTTP requests sent by the current/last call
  redirects,       \* redirect responses followed by reqwest in the current/last call
  pre_sid,         \* session_id when the current/last call started
  pre_user,        \* logged_in_user when the current/last call started
  res,             \* result of the last call
  hostname,        \* Session.hostname
  req              \* <<method, url>> of the request sent by the current/last call

vars == <<session_id, logged_in_user, insecure, pc, op_user, sent_header,
          resp_status, resp_value, sends, redirects, pre_sid, pre_user, res, hostname, req>>

\* ---------------------------------------------------------------------
\* Results
\* ---------------------------------------------------------------------
NoResult == [op |-> "none", kind |-> "none", flag |-> FALSE, code |-> 0, val |-> 0]

\* variant: the 401 path of login answers Ok(true)
OkResultBad(o, f, v) == [op |-> o, kind |-> "ok", flag |-> TRUE, code |-> 0, val |-> v]

OkResult(o, f, v) == [op |-> o, kind |-> "ok", flag |-> f, code |-> 0, val |-> v]

\* Error::Reqwest (transport failure or body decode failure)
ErrReqwest(o) == [op |-> o, kind |-> "reqwest", flag |-> FALSE, code |-> 0, val |-> 0]

\* Error::Unauthorized
\* variant: Unauthorized reported as UnexpectedStatusCode(401)
ErrUnauthorizedBad(o) == [op |-> o, kind |-> "unexpected", flag |-> FALSE, code |-> 401, val |-> 0]

ErrUnauthorized(o) == [op |-> o, kind |-> "unauthorized", flag |-> FALSE, code |-> 0, val |-> 0]

\* Error::UnexpectedStatusCode(status.as_u16())
\* variant: a fixed code instead of status.as_u16()
ErrUnexpectedStatusCodeBad(o, c) == [op |-> o, kind |-> "unexpected", flag |-> FALSE, code |-> 500, val |-> 0]

ErrUnexpectedStatusCode(o, c) == [op |-> o, kind |-> "unexpected", flag |-> FALSE, code |-> c, val |-> 0]

\* the future was dropped at a suspension point
Cancelled(o) == [op |-> o, kind |-> "cancelled", flag |-> FALSE, code |-> 0, val |-> 0]

\* api_url!: format!("https://{}/rest/{}", hostname, endpoint)
ApiUrl(h, e) == "https://" \o h \o "/rest/" \o e

\* ---------------------------------------------------------------------
\* authenticated_request: header value is the token, or "" when None
\* ---------------------------------------------------------------------
\* variant: the header always carries the empty value
HeaderValueBad(sid) == None

HeaderValue(sid) == IF sid # None THEN sid ELSE None

\* self.session_id = Some(resp.value); self.logged_in_user = Some(username);
\* variant: an existing token is kept (get_or_insert)
LoginCommitBad(t, u) ==
  /\ session_id' = IF session_id # None THEN session_id ELSE t
  /\ logged_in_user' = u

LoginCommit(t, u) ==
  /\ session_id' = t
  /\ logged_in_user' = u

\* self.session_id = None; self.logged_in_user = None;
\* variant: only the token is cleared
LogoutClearBad ==
  /\ session_id' = None
  /\ logged_in_user' = logged_in_user

LogoutClear ==
  /\ session_id' = None
  /\ logged_in_user' = None

\* one redirect response handled inside send().await (reqwest's PendingRequest):
\* the URL is pushed to the list of visited URLs (one per request sent so far)
\* and Policy::limited(10) errors with TooManyRedirects when that list is
\* longer than 10, otherwise a further request is sent
RedirectHop(o, p) ==
  /\ UNCHANGED resp_status
  /\ IF sends > RedirectLimit
       THEN /\ pc' = "idle"
            /\ res' = ErrReqwest(o)
            /\ UNCHANGED <<sends, redirects>>
       ELSE /\ pc' = p
            /\ sends' = sends + 1
            /\ redirects' = redirects + 1
            /\ UNCHANGED res

\* common bookkeeping when a call starts from an idle session
StartCall(p) ==
  /\ pc = "idle"
  /\ pc' = p
  /\ pre_sid' = session_id
  /\ pre_user' = logged_in_user
  /\ resp_status' = 0
  /\ resp_value' = 0
  /\ redirects' = 0

\* ---------------------------------------------------------------------
\* Session::new
\* ---------------------------------------------------------------------
Init ==
  /\ session_id = None
  /\ logged_in_user = None
  /\ insecure = FALSE
  /\ pc = "unconstructed"
  /\ op_user = None
  /\ sent_header = None
  /\ resp_status = 0
  /\ resp_value = 0
  /\ sends = 0
  /\ redirects = 0
  /\ pre_sid = None
  /\ pre_user = None
  /\ res = NoResult
  /\ hostname = ""
  /\ req = <<"", "">>

\* variant: construction probes the host with a request
NewBad ==
  /\ pc = "unconstructed"
  /\ \E ic \in BOOLEAN, h \in Hostnames :
       /\ insecure' = ic
       /\ hostname' = h
  \* builder.build()? : Ok(Session {..}) or Err(Error::Reqwest), no session
  /\ \/ /\ pc' = "idle"
        /\ res' = OkResult("new", FALSE, 0)
     \/ /\ pc' = "failed"
        /\ res' = ErrReqwest("new")
  /\ sends' = 1
  /\ UNCHANGED <<redirects, session_id, logged_in_user, req, op_user, sent_header, resp_status, resp_value, pre_sid, pre_user>>

New ==
  /\ pc = "unconstructed"
  /\ \E ic \in BOOLEAN, h \in Hostnames :
       /\ insecure' = ic
       /\ hostname' = h
  \* builder.build()? : Ok(Session {..}) or Err(Error::Reqwest), no session
  /\ \/ /\ pc' = "idle"
        /\ res' = OkResult("new", FALSE, 0)
     \/ /\ pc' = "failed"
        /\ res' = ErrReqwest("new")
  /\ UNCHANGED <<redirects, session_id, logged_in_user, req, op_user, sent_header, resp_status, resp_value, sends, pre_sid, pre_user>>

\* ---------------------------------------------------------------------
\* Session::login
\* ---------------------------------------------------------------------
\* call: builds the POST with basic auth and sends it (first suspension point)
LoginCall ==
  /\ StartCall("login_send")
  /\ req' = <<"POST", ApiUrl(hostname, "/com/vmware/cis/session")>>
  /\ \E u \in Users : op_user' = u
  /\ sends' = 1
  /\ UNCHANGED <<hostname, session_id, logged_in_user, insecure, sent_header, res>>

\* send().await? resumes, then the status is matched
\* variant: the username is stored as soon as the status is 200,
\* before the body is read
LoginSendDoneBad ==
  /\ pc = "login_send"
  /\ \/ /\ RedirectHop("login", "login_send")
        /\ UNCHANGED logged_in_user
     \/ /\ UNCHANGED <<sends, redirects>>
        /\ \/ /\ pc' = "idle"
              /\ res' = ErrReqwest("login")
              /\ UNCHANGED <<resp_status, logged_in_user>>
           \/ \E st \in StatusCodes :
                /\ resp_status' = st
                /\ IF st = HTTP_OK
                     THEN /\ pc' = "login_body"
                          /\ logged_in_user' = op_user
                          /\ UNCHANGED res
                   ELSE IF st = HTTP_UNAUTHORIZED
                     THEN /\ pc' = "idle"
                          /\ res' = OkResult("login", FALSE, 0)
                          /\ UNCHANGED logged_in_user
                   ELSE /\ pc' = "idle"
                        /\ res' = ErrUnexpectedStatusCode("login", st)
                        /\ UNCHANGED logged_in_user
  /\ UNCHANGED <<hostname, req, session_id, insecure, op_user, sent_header,
                 resp_value, pre_sid, pre_user>>

\* variant: a transport error is retried once with a second request
LoginSendDoneRetry ==
  /\ pc = "login_send"
  /\ \/ /\ RedirectHop("login", "login_send")
     \/ /\ UNCHANGED redirects
        /\ \/ /\ sends < 2
              /\ pc' = "login_send"
              /\ sends' = sends + 1
              /\ UNCHANGED <<res, resp_status>>
           \/ /\ pc' = "idle"
              /\ res' = ErrReqwest("login")
              /\ UNCHANGED <<resp_status, sends>>
           \/ \E st \in StatusCodes :
                /\ resp_status' = st
                /\ UNCHANGED sends
                /\ IF st = HTTP_OK
                     THEN /\ pc' = "login_body"
                          /\ UNCHANGED res
                   ELSE IF st = HTTP_UNAUTHORIZED
                     THEN /\ pc' = "idle"
                          /\ res' = OkResult("login", FALSE, 0)
                   ELSE /\ pc' = "idle"
                        /\ res' = ErrUnexpectedStatusCode("login", st)
  /\ UNCHANGED <<hostname, req, session_id, logged_in_user, insecure, op_user, sent_header,
                 resp_value, pre_sid, pre_user>>

LoginSendDone ==
  /\ pc = "login_send"
  /\ \/ /\ RedirectHop("login", "login_send")
     \/ /\ UNCHANGED <<sends, redirects>>
        /\ \/ /\ pc' = "idle"
              /\ res' = ErrReqwest("login")
              /\ UNCHANGED resp_status
           \/ \E st \in StatusCodes :
                /\ resp_status' = st
                /\ IF st = HTTP_OK
                     THEN /\ pc' = "login_body"
                          /\ UNCHANGED res
                   ELSE IF st = HTTP_UNAUTHORIZED
                     THEN /\ pc' = "idle"
                          /\ res' = OkResult("login", FALSE, 0)
                   ELSE /\ pc' = "idle"
                        /\ res' = ErrUnexpectedStatusCode("login", st)
  /\ UNCHANGED <<hostname, req, session_id, logged_in_user, insecure, op_user, sent_header,
                 resp_value, pre_sid, pre_user>>

\* resp.json::<ApiResponse<String>>().await? resumes; state is committed
\* variant: an undecodable body is reported as Ok(false)
LoginBodyDoneBad ==
  /\ pc = "login_body"
  /\ pc' = "idle"
  /\ \/ /\ res' = OkResult("login", FALSE, 0)
        /\ UNCHANGED <<session_id, logged_in_user, resp_value>>
     \/ \E t \in Tokens :
          /\ resp_value' = t
          /\ LoginCommit(t, op_user)
          /\ res' = OkResult("login", TRUE, 0)
  /\ UNCHANGED <<redirects, hostname, req, insecure, op_user, sent_header, resp_status, sends, pre_sid, pre_user>>

LoginBodyDone ==
  /\ pc = "login_body"
  /\ pc' = "idle"
  /\ \/ /\ res' = ErrReqwest("login")
        /\ UNCHANGED <<session_id, logged_in_user, resp_value>>
     \/ \E t \in Tokens :
          /\ resp_value' = t
          /\ LoginCommit(t, op_user)
          /\ res' = OkResult("login", TRUE, 0)
  /\ UNCHANGED <<redirects, hostname, req, insecure, op_user, sent_header, resp_status, sends, pre_sid, pre_user>>

\* ---------------------------------------------------------------------
\* Session::login_status
\* ---------------------------------------------------------------------
\* variant: without a token the request is refused client-side, never sent
StatusCallBad ==
  /\ StartCall(IF session_id = None THEN "idle" ELSE "status_send")
  /\ req' = <<"POST", ApiUrl(hostname, "/com/vmware/cis/session?~action=get")>>
  /\ sent_header' = HeaderValue(session_id)
  /\ sends' = IF session_id = None THEN 0 ELSE 1
  /\ res' = IF session_id = None THEN ErrUnauthorized("login_status") ELSE res
  /\ UNCHANGED <<hostname, session_id, logged_in_user, insecure, op_user>>

StatusCall ==
  /\ StartCall("status_send")
  /\ req' = <<"POST", ApiUrl(hostname, "/com/vmware/cis/session?~action=get")>>
  /\ sent_header' = HeaderValue(session_id)
  /\ sends' = 1
  /\ UNCHANGED <<hostname, session_id, logged_in_user, insecure, op_user, res>>

\* variant: a 401 on login_status drops the local session
StatusSendDoneBad ==
  /\ pc = "status_send"
  /\ \/ /\ RedirectHop("login_status", "status_send")
        /\ UNCHANGED <<session_id, logged_in_user>>
     \/ /\ UNCHANGED <<sends, redirects>>
        /\ \/ /\ pc' = "idle"
              /\ res' = ErrReqwest("login_status")
              /\ UNCHANGED <<resp_status, session_id, logged_in_user>>
           \/ \E st \in StatusCodes :
                /\ resp_status' = st
                /\ IF st = HTTP_OK
                     THEN /\ pc' = "status_body"
                          /\ UNCHANGED <<res, session_id, logged_in_user>>
                   ELSE IF st = HTTP_UNAUTHORIZED
                     THEN /\ pc' = "idle"
                          /\ res' = ErrUnauthorized("login_status")
                          /\ LogoutClear
                   ELSE /\ pc' = "idle"
                        /\ res' = ErrUnexpectedStatusCode("login_status", st)
                        /\ UNCHANGED <<session_id, logged_in_user>>
  /\ UNCHANGED <<hostname, req, insecure, op_user, sent_header,
                 resp_value, pre_sid, pre_user>>

StatusSendDone ==
  /\ pc = "status_send"
  /\ \/ /\ RedirectHop("login_status", "status_send")
     \/ /\ UNCHANGED <<sends, redirects>>
        /\ \/ /\ pc' = "idle"
              /\ res' = ErrReqwest("login_status")
              /\ UNCHANGED resp_status
           \/ \E st \in StatusCodes :
                /\ resp_status' = st
                /\ IF st = HTTP_OK
                     THEN /\ pc' = "status_body"
                          /\ UNCHANGED res
                   ELSE IF st = HTTP_UNAUTHORIZED
                     THEN /\ pc' = "idle"
                          /\ res' = ErrUnauthorized("login_status")
                   ELSE /\ pc' = "idle"
                        /\ res' = ErrUnexpectedStatusCode("login_status", st)
  /\ UNCHANGED <<hostname, req, session_id, logged_in_user, insecure, op_user, sent_header,
                 resp_value, pre_sid, pre_user>>

\* the decoded LoginStatus is abstracted by its user field
StatusBodyDone ==
  /\ pc = "status_body"
  /\ pc' = "idle"
  /\ \/ /\ res' = ErrReqwest("login_status")
        /\ UNCHANGED resp_value
     \/ \E u \in Users :
          /\ resp_value' = u
          /\ res' = OkResult("login_status", FALSE, u)
  /\ UNCHANGED <<redirects, hostname, req, session_id, logged_in_user, insecure, op_user, sent_header,
                 resp_status, sends, pre_sid, pre_user>>

\* ---------------------------------------------------------------------
\* Session::logout
\* ---------------------------------------------------------------------
\* variant: the local session is cleared before the request is sent
LogoutCallBad ==
  /\ StartCall("logout_send")
  /\ req' = <<"DELETE", ApiUrl(hostname, "/com/vmware/cis/session")>>
  /\ sent_header' = HeaderValue(session_id)
  /\ sends' = 1
  /\ LogoutClear
  /\ UNCHANGED <<hostname, insecure, op_user, res>>

LogoutCall ==
  /\ StartCall("logout_send")
  /\ req' = <<"DELETE", ApiUrl(hostname, "/com/vmware/cis/session")>>
  /\ sent_header' = HeaderValue(session_id)
  /\ sends' = 1
  /\ UNCHANGED <<hostname, session_id, logged_in_user, insecure, op_user, res>>

\* send().await? resumes; the body is never read
LogoutSendDone ==
  /\ pc = "logout_send"
  /\ \/ /\ RedirectHop("logout", "logout_send")
        /\ UNCHANGED <<session_id, logged_in_user>>
     \/ /\ UNCHANGED <<sends, redirects>>
        /\ pc' = "idle"
        /\ \/ /\ res' = ErrReqwest("logout")
              /\ UNCHANGED <<resp_status, session_id, logged_in_user>>
           \/ \E st \in StatusCodes :
                /\ resp_status' = st
                /\ IF st = HTTP_OK
                     THEN /\ LogoutClear
                          /\ res' = OkResult("logout", FALSE, 0)
                   ELSE IF st = HTTP_UNAUTHORIZED
                     THEN /\ res' = OkResult("logout", FALSE, 0)
                          /\ UNCHANGED <<session_id, logged_in_user>>
                   ELSE /\ res' = ErrUnexpectedStatusCode("logout", st)
                        /\ UNCHANGED <<session_id, logged_in_user>>
  /\ UNCHANGED <<hostname, req, insecure, op_user, sent_header, resp_value, pre_sid, pre_user>>

\* ---------------------------------------------------------------------
\* Cancellation: the caller drops the future at a suspension point
\* ---------------------------------------------------------------------
\* the .await points of the three operations
Awaiting == {"login_send", "login_body", "status_send", "status_body", "logout_send"}

\* an .await whose future never resolves (the client has no timeout)
Stalled(p) == p \o "_stalled"

StalledPcs == {Stalled(p) : p \in Awaiting}

\* the server accepts the request but never answers / never ends the body
ServerStall ==
  /\ pc \in Awaiting
  /\ pc' = Stalled(pc)
  /\ UNCHANGED <<redirects, hostname, req, session_id, logged_in_user, insecure, op_user, sent_header,
                 resp_status, resp_value, sends, pre_sid, pre_user, res>>

OpOf(p) == IF p \in {"login_send", "login_body", Stalled("login_send"), Stalled("login_body")}
             THEN "login"
           ELSE IF p \in {"status_send", "status_body", Stalled("status_send"), Stalled("status_body")}
             THEN "login_status"
           ELSE "logout"

Cancel ==
  /\ pc \in Awaiting \cup StalledPcs
  /\ pc' = "idle"
  /\ res' = Cancelled(OpOf(pc))
  /\ UNCHANGED <<redirects, hostname, req, session_id, logged_in_user, insecure, op_user, sent_header,
                 resp_status, resp_value, sends, pre_sid, pre_user>>

Next ==
  \/ New
  \/ LoginCall
  \/ LoginSendDone
  \/ LoginBodyDone
  \/ StatusCall
  \/ StatusSendDone
  \/ StatusBodyDone
  \/ LogoutCall
  \/ LogoutSendDone
  \/ ServerStall
  \/ Cancel

Spec == Init /\ [][Next]_vars

\* tokio keeps polling a future that is ready: an awaited response the server
\* does send (or a transport error) is eventually processed; a stalled
\* server (ServerStall) gets no fairness
LiveSpec ==
  /\ Spec
  /\ WF_vars(LoginSendDone)
  /\ WF_vars(LoginBodyDone)
  /\ WF_vars(StatusSendDone)
  /\ WF_vars(StatusBodyDone)
  /\ WF_vars(LogoutSendDone)

\* ---------------------------------------------------------------------
\* Properties
\* ---------------------------------------------------------------------
\* the session fields equal their values at the start of the last call
StateAsBefore == session_id = pre_sid /\ logged_in_user = pre_user

\* C1: in every reachable state, session_id is set exactly when
\* logged_in_user is set.
Inv_C1 == (session_id # None) <=> (logged_in_user # None)

Wit_C1 == session_id # None /\ res.op = "logout" /\ pc = "idle"

\* C2: logout answered with 401 returns Ok(()) and leaves the session
\* unauthenticated (session_id = None and logged_in_user = None).
Inv_C2 == (pc = "idle" /\ res.op = "logout" /\ resp_status = HTTP_UNAUTHORIZED)
            => (res.kind = "ok" /\ session_id = None /\ logged_in_user = None)

\* C3: login answered 200 with token t returns Ok(true) and stores t and
\* the username; authenticated requests then carry t in the
\* vmware-api-session-id header.
Inv_C3 ==
  /\ (pc = "idle" /\ res.op = "login" /\ resp_status = HTTP_OK /\ res.kind = "ok")
       => (res.flag /\ session_id = resp_value /\ logged_in_user = op_user)
  /\ (pc \in {"status_send", "status_body", "logout_send"} /\ session_id # None)
       => sent_header = session_id

Wit_C3 == pc = "logout_send" /\ sent_header # None /\ res.op = "login" /\ res.flag

\* C4: login answered 401 returns Ok(false) and leaves session_id and
\* logged_in_user as they were before the call.
Inv_C4 == (pc = "idle" /\ res.op = "login" /\ resp_status = HTTP_UNAUTHORIZED)
            => (res.kind = "ok" /\ ~res.flag /\ StateAsBefore)

Wit_C4 == pc = "idle" /\ res.op = "login" /\ resp_status = HTTP_UNAUTHORIZED /\ pre_sid # None

FirstStatus == IF redirects > 0 THEN RedirectStatus ELSE resp_status

Inv_C6 ==
  /\ (pc \in {"status_send", "status_body"} \/ (pc = "idle" /\ res.op = "login_status"))
       => StateAsBefore
  /\ (pc = "idle" /\ res.op = "login_status" /\ resp_status = HTTP_OK /\ res.kind = "ok")
       => res.val = resp_value
  /\ (pc = "idle" /\ res.op = "login_status" /\ resp_status = HTTP_UNAUTHORIZED)
       => res.kind = "unauthorized"

Wit_C6 == pc = "idle" /\ res.op = "login_status" /\ res.kind = "unauthorized" /\ pre_sid # None

\* C7: a transport or body decode failure is returned as an error without a
\* retry (every request after the first is a followed redirect), and the
\* session fields are unchanged.
Inv_C7 == (pc = "idle" /\ res.kind = "reqwest") => (StateAsBefore /\ sends = redirects + 1)

Wit_C7 == pc = "idle" /\ res.kind = "reqwest" /\ res.op = "logout" /\ pre_sid # None

\* C8: an operation dropped at any suspension point leaves the session in
\* its state before the call.
Inv_C8 == (pc = "idle" /\ res.kind = "cancelled") => StateAsBefore

Wit_C8 == pc = "idle" /\ res.kind = "cancelled" /\ res.op = "login" /\ resp_status = HTTP_OK

\* C9: session_id changes only to a new token in a login that got 200, or to
\* None in a logout answered 200 or 401.
Prop_C9 ==
  [][ session_id' # session_id =>
        \/ /\ pc = "login_body" /\ resp_status = HTTP_OK
           /\ res'.op = "login" /\ res'.kind = "ok" /\ session_id' # None
        \/ /\ pc = "logout_send" /\ resp_status' \in {HTTP_OK, HTTP_UNAUTHORIZED}
           /\ res'.kind = "ok" /\ session_id' = None
    ]_vars

Wit_C9 == pc = "idle" /\ res.op = "login" /\ res.flag /\ pre_sid # None /\ session_id # pre_sid

\* C10 (as amended): Session::new sends no request; when the client builds it
\* returns Ok with no token and no user, otherwise Err(Reqwest) and no session.
Inv_C10 == (res.op = "new" /\ pc \in {"idle", "failed"})
             => /\ sends = 0
                /\ session_id = None
                /\ logged_in_user = None
                /\ (res.kind = "ok" <=> pc = "idle")
                /\ (res.kind # "ok" => res.kind = "reqwest")

Wit_C10 == res.op = "new" /\ res.kind = "ok" /\ pc = "idle" /\ insecure

\* C10 as stated: Session::new always succeeds.
Orig_C10 == res.op = "new" => res.kind = "ok"

\* C11: authenticated requests always carry vmware-api-session-id, with the
\* empty value when no token is set; an unauthenticated login_status or
\* logout reaches the server, whose 401 yields Unauthorized resp. Ok(()).
Inv_C11 ==
  /\ (pc \in {"status_send", "status_body", "logout_send"} /\ session_id = None)
       => sent_header = None
  /\ (pc = "idle" /\ res.op \in {"login_status", "logout"} /\ res.kind # "cancelled")
       => sends >= 1
  /\ (pc = "idle" /\ res.op = "login_status" /\ pre_sid = None /\ resp_status = HTTP_UNAUTHORIZED)
       => res.kind = "unauthorized"
  /\ (pc = "idle" /\ res.op = "logout" /\ pre_sid = None /\ resp_status = HTTP_UNAUTHORIZED)
       => res.kind = "ok"

Wit_C11 == pc = "idle" /\ res.op = "login_status" /\ pre_sid = None /\ res.kind = "unauthorized"

\* C12: login sends POST https://<hostname>/rest/com/vmware/cis/session,
\* login_status POST https://<hostname>/rest/com/vmware/cis/session?~action=get,
\* logout DELETE https://<hostname>/rest/com/vmware/cis/session.
Inv_C12 ==
  /\ pc = "login_send"
       => req = <<"POST", "https://" \o hostname \o "/rest/com/vmware/cis/session">>
  /\ pc = "status_send"
       => req = <<"POST", "https://" \o hostname \o "/rest/com/vmware/cis/session?~action=get">>
  /\ pc = "logout_send"
       => req = <<"DELETE", "https://" \o hostname \o "/rest/com/vmware/cis/session">>

Inv_C14 == (pc = "idle" /\ res.op = "login" /\ res.kind = "ok" /\ res.flag /\ pre_sid # None)
             => /\ session_id = resp_value
                /\ logged_in_user = op_user
                /\ sends = redirects + 1
                /\ req[1] = "POST"

Wit_C14 == pc = "idle" /\ res.op = "login" /\ res.flag /\ pre_sid # None
             /\ session_id # pre_sid /\ logged_in_user # pre_user

\* C15: login returns Ok(true) exactly on a 200 with a decodable body, and is
\* then authenticated; Ok(false) only on 401, with the state unchanged.
Inv_C15 == (pc = "idle" /\ res.op = "login")
             => /\ (res.kind = "ok" /\ res.flag) <=> (resp_status = HTTP_OK /\ resp_value # 0)
                /\ (res.kind = "ok" /\ res.flag) => (session_id # None /\ logged_in_user # None)
                /\ (res.kind = "ok" /\ ~res.flag) => (resp_status = HTTP_UNAUTHORIZED /\ StateAsBefore)

Wit_C15 == pc = "idle" /\ res.op = "login" /\ res.kind = "ok" /\ ~res.flag /\ pre_sid # None

====
